---- MODULE Spec2Model ----
(***************************************************************************)
(* NewsBrief: the bookmark slice (store/slices/bookmarksSlice.ts), the     *)
(* storage service (services/storage.ts), the screens that read the        *)
(* bookmark set, and the cache manager of docs/07-async-storage.           *)
(*                                                                         *)
(* Strings that are serialized are modelled as sequences of one-character  *)
(* strings, so that JSON.stringify / JSON.parse are computed character by  *)
(* character.  Time is a discrete clock `now` (the value of Date.now()).    *)
(***************************************************************************)
EXTENDS Integers, Sequences, FiniteSets, TLC

VARIABLES
    items,        \* bookmarks.items : string[]
    isLoading,    \* bookmarks.isLoading
    error,        \* bookmarks.error : string | null
    lastUpdated,  \* bookmarks.lastUpdated : number | null
    inflight,     \* createAsyncThunk promises dispatched and not yet settled
    storage,      \* AsyncStorage, the keys 'bookmarks' and 'bookmarks_backup'
    cacheDisk,    \* AsyncStorage, the keys 'cache_<key>' of SmartCacheManager
    newsDisk,     \* AsyncStorage, the key 'news_cache' of services/storage.ts
    articles,     \* the data of useGetHeadlinesQuery, kept by RTK Query
    queryError,   \* the error of useGetHeadlinesQuery
    newsSlice,    \* state.news, the state of the documented newsSlice
    newsInflight, \* fetchNews thunks dispatched and not yet settled
    migration,    \* AsyncStorage as DataMigrationManager sees it, and its log
    now,          \* Date.now()
    last          \* the operation that ran last and what it reported

storeVars == <<items, isLoading, error, lastUpdated, inflight, storage>>
docVars == <<newsSlice, newsInflight, migration>>
cacheVars == <<cacheDisk, newsDisk, articles, queryError, docVars>>

vars == <<storeVars, cacheVars, now, last>>

----------------------------------------------------------------------------
(* Bounds *)

MaxInflight == 2    \* thunks in flight together
MaxTime == 1        \* the clock of the bookmark store stops here
MaxLen == 3         \* ids in a bookmark list handed to saveBookmarks

----------------------------------------------------------------------------
(* Characters and article ids *)

QUOTE == "\""
BSLASH == "\\"

IdA == <<"a">>
IdB == <<QUOTE, "b">>

\* The article ids the screens dispatch (Article.id is the article's url).
Ids == {IdA, IdB}

NULL == "null"
NoTime == -1

----------------------------------------------------------------------------
(* JSON.stringify and JSON.parse on string[] *)

\* A serializer that copies every character as it is.
EscapeCharVerbatim(c) == <<c>>

EscapeChar(c) ==
    IF c = QUOTE THEN <<BSLASH, QUOTE>>
    ELSE IF c = BSLASH THEN <<BSLASH, BSLASH>>
    ELSE <<c>>

RECURSIVE EscapeString(_)
EscapeString(s) ==
    IF s = <<>> THEN <<>> ELSE EscapeChar(Head(s)) \o EscapeString(Tail(s))

QuoteString(s) == <<QUOTE>> \o EscapeString(s) \o <<QUOTE>>

RECURSIVE JoinStrings(_)
JoinStrings(l) ==
    IF l = <<>> THEN <<>>
    ELSE IF Len(l) = 1 THEN QuoteString(l[1])
    ELSE QuoteString(l[1]) \o <<",">> \o JoinStrings(Tail(l))

\* JSON.stringify(bookmarks) for bookmarks : string[]
JSONStringify(l) == <<"[">> \o JoinStrings(l) \o <<"]">>

ParseFail == [ok |-> FALSE, value |-> <<>>, next |-> 0]

\* The characters of a string literal whose opening quote precedes text[i].
RECURSIVE ParseChars(_, _, _)
ParseChars(text, i, acc) ==
    IF i > Len(text) THEN ParseFail
    ELSE IF text[i] = QUOTE THEN [ok |-> TRUE, value |-> acc, next |-> i + 1]
    ELSE IF text[i] = BSLASH
         THEN IF i + 1 > Len(text) THEN ParseFail
              ELSE IF text[i + 1] \notin {QUOTE, BSLASH} THEN ParseFail
              ELSE ParseChars(text, i + 2, Append(acc, text[i + 1]))
    ELSE ParseChars(text, i + 1, Append(acc, text[i]))

\* The elements of an array from text[i] on, a string literal expected at i.
RECURSIVE ParseElements(_, _, _)
ParseElements(text, i, acc) ==
    IF i > Len(text) THEN ParseFail
    ELSE IF text[i] # QUOTE THEN ParseFail
    ELSE LET s == ParseChars(text, i + 1, <<>>) IN
         IF ~s.ok THEN ParseFail
         ELSE IF s.next > Len(text) THEN ParseFail
         ELSE IF text[s.next] = ","
              THEN ParseElements(text, s.next + 1, Append(acc, s.value))
         ELSE IF text[s.next] = "]" /\ s.next = Len(text)
              THEN [ok |-> TRUE, value |-> Append(acc, s.value), next |-> s.next + 1]
         ELSE ParseFail

\* JSON.parse(data) on the texts the model stores: an array of string
\* literals, or a SyntaxError (ok = FALSE).
JSONParse(text) ==
    IF Len(text) < 2 THEN ParseFail
    ELSE IF text[1] # "[" THEN ParseFail
    ELSE IF text = <<"[", "]">> THEN [ok |-> TRUE, value |-> <<>>, next |-> 3]
    ELSE ParseElements(text, 2, <<>>)

----------------------------------------------------------------------------
(* AsyncStorage cells *)

Absent == [present |-> FALSE, text |-> <<>>]
Blob(t) == [present |-> TRUE, text |-> t]

\* A truncated write: not JSON.
CorruptText == <<"[", QUOTE, "a">>

\* saveBookmarks: AsyncStorage.setItem(KEYS.BOOKMARKS, JSON.stringify(bookmarks));
\* a rejected setItem is caught and logged, the promise resolves all the same.
SaveBookmarksWrite(st, bookmarks, ioOk) ==
    IF ioOk THEN [st EXCEPT !["bookmarks"] = Blob(JSONStringify(bookmarks))]
    ELSE st

\* loadBookmarks: data ? JSON.parse(data) : []  and  [] on any error.
LoadBookmarks(st, ioOk) ==
    IF ~ioOk THEN <<>>
    ELSE LET data == st["bookmarks"] IN
         IF ~data.present \/ data.text = <<>> THEN <<>>
         ELSE LET parsed == JSONParse(data.text) IN
              IF parsed.ok THEN parsed.value ELSE <<>>

----------------------------------------------------------------------------
(* The thunks: what the payload creator returns *)

\* A loadBookmarksAsync whose loadBookmarks lets its errors through.
LoadThunkOutcomeRejecting(st, ioOk) ==
    IF ~ioOk \/ (st["bookmarks"].present /\ st["bookmarks"].text # <<>>
                    /\ ~JSONParse(st["bookmarks"].text).ok)
    THEN [status |-> "rejected", payload |-> <<>>]
    ELSE [status |-> "fulfilled", payload |-> LoadBookmarks(st, ioOk)]

\* loadBookmarksAsync: loadBookmarks never throws, so the catch is not taken.
LoadThunkOutcome(st, ioOk) ==
    [status |-> "fulfilled", payload |-> LoadBookmarks(st, ioOk)]

\* saveBookmarksAsync: saveBookmarks never throws, so the catch is not taken.
SaveThunkOutcome(bookmarks, ioOk) ==
    [status |-> "fulfilled", payload |-> bookmarks]

----------------------------------------------------------------------------
(* The reducers of bookmarksSlice *)

Range(s) == {s[i] : i \in 1..Len(s)}

Includes(its, id) == id \in Range(its)

\* addBookmark without its includes() test.
AddBookmarkItemsUnchecked(its, id) == Append(its, id)

\* addBookmark with unshift in place of push.
AddBookmarkItemsFront(its, id) ==
    IF ~Includes(its, id) THEN <<id>> \o its ELSE its

AddBookmarkItems(its, id) ==
    IF ~Includes(its, id) THEN Append(its, id) ELSE its

\* addBookmark stamping outside its includes() test.
AddBookmarkStampAlways(its, id, lu, t) == t

AddBookmarkStamp(its, id, lu, t) ==
    IF ~Includes(its, id) THEN t ELSE lu

RemoveBookmarkItems(its, id) == SelectSeq(its, LAMBDA x : x # id)

\* What the caller of an operation sees of it: its name and argument, whether
\* its AsyncStorage call succeeded, the thunk's outcome, and whether
\* bookmarks.items changed.
Report(op, id, ioOk, outcome, changed) ==
    [op |-> op, id |-> id, ioOk |-> ioOk, outcome |-> outcome,
     changed |-> changed]

AddBookmark(id) ==
    /\ items' = AddBookmarkItems(items, id)
    /\ lastUpdated' = AddBookmarkStamp(items, id, lastUpdated, now)
    /\ last' = Report("addBookmark", id, TRUE, "none", items' # items)
    /\ UNCHANGED <<isLoading, error, inflight, storage, now, cacheVars>>

RemoveBookmark(id) ==
    /\ items' = RemoveBookmarkItems(items, id)
    /\ lastUpdated' = now
    /\ last' = Report("removeBookmark", id, TRUE, "none", items' # items)
    /\ UNCHANGED <<isLoading, error, inflight, storage, now, cacheVars>>

ClearAllBookmarks ==
    /\ items' = <<>>
    /\ lastUpdated' = now
    /\ last' = Report("clearAllBookmarks", <<>>, TRUE, "none", items' # items)
    /\ UNCHANGED <<isLoading, error, inflight, storage, now, cacheVars>>

ClearError ==
    /\ error' = NULL
    /\ last' = Report("clearError", <<>>, TRUE, "none", FALSE)
    /\ UNCHANGED <<items, isLoading, lastUpdated, inflight, storage, now, cacheVars>>

\* dispatch(loadBookmarksAsync()): the pending reducer runs at once.
LoadDispatch ==
    /\ Len(inflight) < MaxInflight
    /\ isLoading' = TRUE
    /\ error' = NULL
    /\ inflight' = Append(inflight, [kind |-> "load", arg |-> <<>>])
    /\ last' = Report("loadPending", <<>>, TRUE, "pending", FALSE)
    /\ UNCHANGED <<items, lastUpdated, storage, now, cacheVars>>

\* dispatch(saveBookmarksAsync(items)): the pending reducer runs at once.
SaveDispatch ==
    /\ Len(inflight) < MaxInflight
    /\ isLoading' = TRUE
    /\ error' = NULL
    /\ inflight' = Append(inflight, [kind |-> "save", arg |-> items])
    /\ last' = Report("savePending", <<>>, TRUE, "pending", FALSE)
    /\ UNCHANGED <<items, lastUpdated, storage, now, cacheVars>>

RemoveAt(s, i) == SubSeq(s, 1, i - 1) \o SubSeq(s, i + 1, Len(s))

\* The fulfilled and rejected reducers, the same for both thunks.
Settled(out, rejectedWith) ==
    IF out.status = "fulfilled"
    THEN /\ isLoading' = FALSE
         /\ items' = out.payload
         /\ lastUpdated' = now
         /\ UNCHANGED error
    ELSE /\ isLoading' = FALSE
         /\ error' = rejectedWith
         /\ UNCHANGED <<items, lastUpdated>>

\* A loadBookmarksAsync settles: the read of storage, then the reducer.
LoadSettle(i, ioOk) ==
    /\ i \in 1..Len(inflight)
    /\ inflight[i].kind = "load"
    /\ LET out == LoadThunkOutcome(storage, ioOk) IN
       /\ Settled(out, "load rejected")
       /\ last' = Report("loadSettled", <<>>, ioOk, out.status, items' # items)
    /\ inflight' = RemoveAt(inflight, i)
    /\ UNCHANGED <<storage, now, cacheVars>>

\* A saveBookmarksAsync settles: the write to storage, then the reducer.
SaveSettle(i, ioOk) ==
    /\ i \in 1..Len(inflight)
    /\ inflight[i].kind = "save"
    /\ storage' = SaveBookmarksWrite(storage, inflight[i].arg, ioOk)
    /\ LET out == SaveThunkOutcome(inflight[i].arg, ioOk) IN
       /\ Settled(out, "save rejected")
       /\ last' = Report("saveSettled", <<>>, ioOk, out.status, items' # items)
    /\ inflight' = RemoveAt(inflight, i)
    /\ UNCHANGED <<now, cacheVars>>

\* The process ends and a new one starts: the store is built from
\* initialState, the first screen mounts and its loadBookmarksAsync runs to
\* completion against the same AsyncStorage.
Restart(ioOk) ==
    /\ LET out == LoadThunkOutcome(storage, ioOk) IN
       /\ Settled(out, "load rejected")
       /\ last' = Report("restart", <<>>, ioOk, out.status, items' # items)
    /\ inflight' = <<>>
    /\ UNCHANGED <<storage, now, cacheVars>>

Tick ==
    /\ now < MaxTime
    /\ now' = now + 1
    /\ UNCHANGED <<storeVars, cacheVars, last>>

----------------------------------------------------------------------------
(* SmartCacheManager, TypedStorage and VersionedSerializer                  *)
(* (docs/07-async-storage/README.md)                                        *)

CacheKeys == {"k1", "k2", "k3"}
Payloads == {"p"}
NewsPayloads == {"p", "q"}
TTLs == {0, 1}

\* MAX_CACHE_SIZE = 50 and the 10 extra entries of cleanupLeastUsed, scaled.
MAX_CACHE_SIZE == 2
EVICT_EXTRA == 1

MaxCacheTime == 1   \* the clock of the caches stops here
MaxAccess == 1      \* accessCount stops here

\* A value read from a parsed JSON object: a number, or undefined.
Undefined == [def |-> FALSE, v |-> 0]
Num(n) == [def |-> TRUE, v |-> n]
Field(obj, name) == IF name \in DOMAIN obj THEN Num(obj[name]) ELSE Undefined

\* a - b, a > b and a || 0 on such values (NaN compares false).
JsMinus(a, b) == IF a.def /\ b.def THEN Num(a.v - b.v) ELSE Undefined
JsGreater(a, b) == a.def /\ b.def /\ a.v > b.v
JsOrZero(a) == IF a.def THEN a.v ELSE 0

\* CacheItem<T>
CacheItem(data, timestamp, ttl, accessCount, lastAccessed) ==
    [data |-> data, timestamp |-> timestamp, ttl |-> ttl,
     accessCount |-> accessCount, lastAccessed |-> lastAccessed]

\* VersionedSerializer.serialize(value): { version, timestamp, data }
Serialize(value, t) == [version |-> "1.0", timestamp |-> t, data |-> value]

NoItem == CacheItem(NULL, 0, 0, 0, 0)
NoEntry == [present |-> FALSE, env |-> Serialize(NoItem, 0)]
Entry(env) == [present |-> TRUE, env |-> env]

EmptyCache == [k \in CacheKeys |-> NoEntry]

PresentKeys(disk) == {k \in CacheKeys : disk[k].present}

\* isExpired(cacheItem): Date.now() - cacheItem.timestamp > cacheItem.ttl
IsExpired(obj, t) ==
    JsGreater(JsMinus(Num(t), Field(obj, "timestamp")), Field(obj, "ttl"))

\* A getTypedItem that takes a rejected read for a read.
GetTypedItemIgnoringFailure(cell, readOk) ==
    IF ~cell.present THEN [found |-> FALSE, item |-> NoItem]
    ELSE IF "version" \in DOMAIN cell.env /\ "data" \in DOMAIN cell.env
         THEN [found |-> TRUE, item |-> cell.env.data]
    ELSE [found |-> FALSE, item |-> NoItem]

\* TypedStorage.getTypedItem: null when the read fails, the key is absent or
\* the envelope lacks version or data; the envelope's data otherwise.
GetTypedItem(cell, readOk) ==
    IF ~readOk \/ ~cell.present THEN [found |-> FALSE, item |-> NoItem]
    ELSE IF "version" \in DOMAIN cell.env /\ "data" \in DOMAIN cell.env
         THEN [found |-> TRUE, item |-> cell.env.data]
    ELSE [found |-> FALSE, item |-> NoItem]

\* A setTypedItem that writes every key to one slot.
SetTypedItemOneSlot(disk, key, value, t) ==
    [disk EXCEPT !["k1"] = Entry(Serialize(value, t))]

\* TypedStorage.setTypedItem(cacheKey, value)
SetTypedItem(disk, key, value, t) ==
    [disk EXCEPT ![key] = Entry(Serialize(value, t))]

\* AsyncStorage.getAllKeys() gives the keys in an order of its own.
KeyOrders(S) ==
    {o \in [1..Cardinality(S) -> S] : \A i, j \in DOMAIN o : o[i] = o[j] => i = j}

\* The comparator of cleanupLeastUsed.
LessUsed(a, b) ==
    IF a.accessCount # b.accessCount
    THEN a.accessCount < b.accessCount
    ELSE a.lastAccessed < b.lastAccessed

RECURSIVE InsertByUse(_, _)
InsertByUse(x, sorted) ==
    IF sorted = <<>> THEN <<x>>
    ELSE IF LessUsed(x, Head(sorted)) THEN <<x>> \o sorted
    ELSE <<Head(sorted)>> \o InsertByUse(x, Tail(sorted))

\* Array.prototype.sort with that comparator (stable).
RECURSIVE SortByUse(_)
SortByUse(s) ==
    IF s = <<>> THEN <<>>
    ELSE InsertByUse(s[Len(s)], SortByUse(SubSeq(s, 1, Len(s) - 1)))

\* A sign slip in the slice of cleanupLeastUsed.
EvictCountShort(n) == n - MAX_CACHE_SIZE - EVICT_EXTRA

\* cacheItems.length - MAX_CACHE_SIZE + 10
EvictCount(n) == n - MAX_CACHE_SIZE + EVICT_EXTRA

\* cleanupLeastUsed(cacheKeys): the ranks are read from the parsed blob, which
\* is the envelope.
CleanupLeastUsed(disk, keys) ==
    LET cacheItems ==
            [i \in 1..Len(keys) |->
                [key |-> keys[i],
                 accessCount |-> JsOrZero(Field(disk[keys[i]].env, "accessCount")),
                 lastAccessed |-> JsOrZero(Field(disk[keys[i]].env, "lastAccessed"))]]
        sorted == SortByUse(cacheItems)
        n == EvictCount(Len(sorted))
        upto == IF n > Len(sorted) THEN Len(sorted) ELSE n
        toRemove == {sorted[i].key : i \in 1..upto}
    IN [k \in CacheKeys |-> IF k \in toRemove THEN NoEntry ELSE disk[k]]

\* cleanupIfNeeded(): the expiry test is applied to the parsed blob, which is
\* the envelope; then the count is tested.
CleanupIfNeeded(disk, t, order) ==
    LET purged ==
            [k \in CacheKeys |->
                IF disk[k].present /\ IsExpired(disk[k].env, t)
                THEN NoEntry ELSE disk[k]]
        remaining == SelectSeq(order, LAMBDA k : purged[k].present)
    IN IF Len(remaining) > MAX_CACHE_SIZE
       THEN CleanupLeastUsed(purged, remaining)
       ELSE purged

\* What the caller of a cache operation gave it and got back, and the number
\* of entries the operation's sweep deleted.
CacheReport(op, key, io, ret, ttl, evicted) ==
    [op |-> op, key |-> key, io |-> io, ret |-> ret, ttl |-> ttl,
     evicted |-> evicted]

\* The expiry test of getCacheItem, applied to the envelope.
GetIsExpiredOnEnvelope(cell, t) == IsExpired(cell.env, t)

\* getCacheItem: this.isExpired(cacheItem), cacheItem the envelope's data.
GetIsExpired(cell, t) == IsExpired(cell.env.data, t)

\* The orders cleanupIfNeeded may meet.  The order decides nothing unless
\* cleanupLeastUsed runs, which takes more than MAX_CACHE_SIZE keys.
SweepOrders(disk) ==
    IF Cardinality(PresentKeys(disk)) > MAX_CACHE_SIZE
    THEN KeyOrders(PresentKeys(disk))
    ELSE {CHOOSE o \in KeyOrders(PresentKeys(disk)) : TRUE}

\* setCacheItem(key, data, ttl).  io = "writeFails": setItem rejects, the
\* error is logged and the sweep does not run.  The reads of the sweep are
\* taken to succeed.
SetCacheItem(key, data, ttl, io) ==
    LET written == SetTypedItem(cacheDisk, key,
                                CacheItem(data, now, ttl, 0, now), now)
    IN /\ \/ /\ io = "writeFails"
             /\ cacheDisk' = cacheDisk
          \/ /\ io = "ok"
             /\ \E order \in SweepOrders(written) :
                    cacheDisk' = CleanupIfNeeded(written, now, order)
       /\ last' = CacheReport("setCacheItem", key, io, NULL, ttl,
                      IF io = "writeFails" THEN 0
                      ELSE Cardinality(PresentKeys(written))
                             - Cardinality(PresentKeys(cacheDisk')))
       /\ UNCHANGED <<storeVars, newsDisk, articles, queryError, docVars, now>>

\* An updateAccessStats that also renews the entry's timestamp.
UpdateAccessStatsRenewing(item, t) ==
    [item EXCEPT !.accessCount = @ + 1, !.lastAccessed = t, !.timestamp = t]

\* updateAccessStats: { ...cacheItem, accessCount + 1, lastAccessed: now }
UpdateAccessStats(item, t) ==
    [item EXCEPT !.accessCount = @ + 1, !.lastAccessed = t]

\* getCacheItem(key).  io = "readFails": getItem rejects.  io = "writeFails":
\* the removeItem of an expired entry, or the setItem of updateAccessStats,
\* rejects.
GetCacheItem(key, io) ==
    LET cell == cacheDisk[key]
        got == GetTypedItem(cell, io # "readFails")
        expired == got.found /\ GetIsExpired(cell, now)
        hit == got.found /\ ~expired
    IN /\ hit => got.item.accessCount < MaxAccess
       /\ cacheDisk' =
            IF io = "writeFails" \/ ~got.found THEN cacheDisk
            ELSE IF expired THEN [cacheDisk EXCEPT ![key] = NoEntry]
            ELSE SetTypedItem(cacheDisk, key,
                     UpdateAccessStats(got.item, now), now)
       /\ last' = CacheReport("getCacheItem", key, io,
                      IF hit THEN got.item.data ELSE NULL, 0, 0)
       /\ UNCHANGED <<storeVars, newsDisk, articles, queryError, docVars, now>>

\* removeCacheItem(key)
RemoveCacheItem(key, io) ==
    /\ cacheDisk' = IF io = "ok" THEN [cacheDisk EXCEPT ![key] = NoEntry]
                    ELSE cacheDisk
    /\ last' = CacheReport("removeCacheItem", key, io, NULL, 0, 0)
    /\ UNCHANGED <<storeVars, newsDisk, articles, queryError, docVars, now>>

\* clearAllCache()
ClearAllCache(io) ==
    /\ cacheDisk' = IF io = "ok" THEN EmptyCache ELSE cacheDisk
    /\ last' = CacheReport("clearAllCache", "", io, NULL, 0, 0)
    /\ UNCHANGED <<storeVars, newsDisk, articles, queryError, docVars, now>>

CacheTick ==
    /\ now < MaxCacheTime
    /\ now' = now + 1
    /\ UNCHANGED <<storeVars, cacheVars, last>>

----------------------------------------------------------------------------
(* cacheNews and loadCachedNews (services/storage.ts), the key 'news_cache' *)

\* 24 * 60 * 60 * 1000, scaled to the model's clock.
NEWS_CACHE_TTL == 2

MaxNewsTime == 3    \* the clock of the news cache stops here

NoNews == [kind |-> "absent", data |-> NULL, timestamp |-> 0]
CorruptNews == [kind |-> "corrupt", data |-> NULL, timestamp |-> 0]

\* cacheNews(news): { data: news, timestamp: Date.now() }; a rejected setItem
\* is logged.
CacheNews(news, io) ==
    /\ newsDisk' = IF io = "ok"
                   THEN [kind |-> "valid", data |-> news, timestamp |-> now]
                   ELSE newsDisk
    /\ last' = CacheReport("cacheNews", "news_cache", io, NULL, 0, 0)
    /\ UNCHANGED <<storeVars, cacheDisk, articles, queryError, docVars, now>>

\* The expiry test of loadCachedNews.
NewsIsExpired(cell, t) == t - cell.timestamp > NEWS_CACHE_TTL

\* What loadCachedNews returns: null when the read rejects, the key is absent,
\* JSON.parse throws or the entry is expired; parsed.data otherwise.
LoadCachedNewsResult(cell, t, io) ==
    IF io # "ok" \/ cell.kind # "valid" THEN NULL
    ELSE IF NewsIsExpired(cell, t) THEN NULL
    ELSE cell.data

\* What loadCachedNews leaves in AsyncStorage: it only reads.
LoadCachedNewsDisk(cell, t, io) == cell

LoadCachedNews(io) ==
    /\ newsDisk' = LoadCachedNewsDisk(newsDisk, now, io)
    /\ last' = CacheReport("loadCachedNews", "news_cache", io,
                   LoadCachedNewsResult(newsDisk, now, io), 0, 0)
    /\ UNCHANGED <<storeVars, cacheDisk, articles, queryError, docVars, now>>

----------------------------------------------------------------------------
(* newsSlice, fetchNews and fetchNewsWithCache (docs/03-redux-toolkit) *)

Categories == {"general", "technology"}

\* data.articles as the News API may send it.
ArticleLists == {<<"x">>, <<"y">>}

\* initialState of newsSlice
initialNewsState ==
    [articles |-> <<>>, loading |-> FALSE, error |-> NULL,
     category |-> "general", lastUpdated |-> NoTime]

\* 5 * 60 * 1000, scaled to the model's clock.
NEWS_WINDOW == 1

MaxNewsInflight == 2   \* fetchNews thunks in flight together
MaxSliceTime == 3      \* the clock of the news slice stops here

\* What the fetch of a thunk comes to: data.articles, or a failure (fetch
\* throws, the status is not ok or data.status is 'error').
NewsResponses ==
    {[ok |-> TRUE, articles |-> l] : l \in ArticleLists}
        \cup {[ok |-> FALSE, articles |-> <<>>]}

FetchFailed == "fetch failed"

\* fetchNews.pending
FetchNewsPending(state) == [state EXCEPT !.loading = TRUE, !.error = NULL]

\* A fulfilled reducer that keeps the list it already has.
FetchNewsFulfilledKeepFirst(state, payload) ==
    IF state.lastUpdated # NoTime THEN [state EXCEPT !.loading = FALSE]
    ELSE [state EXCEPT !.loading = FALSE, !.articles = payload.articles,
                       !.category = payload.category,
                       !.lastUpdated = payload.timestamp]

\* fetchNews.fulfilled
FetchNewsFulfilled(state, payload) ==
    [state EXCEPT !.loading = FALSE, !.articles = payload.articles,
                  !.category = payload.category,
                  !.lastUpdated = payload.timestamp]

\* fetchNews.rejected
FetchNewsRejected(state, payload) ==
    [state EXCEPT !.loading = FALSE, !.error = payload]

\* dispatch(fetchNews({ category })): the pending reducer runs at once.
\* overtaken records that a fetch of the same category started later has
\* already been fulfilled.
FetchNewsDispatch(category) ==
    /\ Len(newsInflight) < MaxNewsInflight
    /\ newsSlice' = FetchNewsPending(newsSlice)
    /\ newsInflight' = Append(newsInflight,
                           [category |-> category, overtaken |-> FALSE])
    /\ last' = [op |-> "fetchNewsPending", category |-> category]
    /\ UNCHANGED <<storeVars, cacheDisk, newsDisk, articles, queryError,
                   migration, now>>

\* A fetchNews settles: the fetch comes to response, then the reducer runs.
FetchNewsSettle(i, response) ==
    /\ i \in 1..Len(newsInflight)
    /\ LET req == newsInflight[i]
           ok == response.ok
           payload == [articles |-> response.articles, category |-> req.category,
                       timestamp |-> now]
       IN /\ newsSlice' = IF ok THEN FetchNewsFulfilled(newsSlice, payload)
                          ELSE FetchNewsRejected(newsSlice, FetchFailed)
          /\ newsInflight' =
                [j \in 1..(Len(newsInflight) - 1) |->
                    LET e == IF j < i THEN newsInflight[j]
                             ELSE newsInflight[j + 1]
                    IN IF j < i /\ ok /\ e.category = req.category
                       THEN [e EXCEPT !.overtaken = TRUE] ELSE e]
          /\ last' = [op |-> "fetchNewsSettled",
                      status |-> IF ok THEN "fulfilled" ELSE "rejected",
                      category |-> req.category,
                      articles |-> response.articles,
                      overtaken |-> req.overtaken]
    /\ UNCHANGED <<storeVars, cacheDisk, newsDisk, articles, queryError,
                   migration, now>>

\* A validity test that does not look at the category.
CacheValidAnyCategory(state, category, t) ==
    /\ state.lastUpdated # NoTime /\ state.lastUpdated # 0
    /\ t - state.lastUpdated < NEWS_WINDOW

\* cacheValid of fetchNewsWithCache; null and 0 are falsy.
CacheValid(state, category, t) ==
    /\ state.lastUpdated # NoTime /\ state.lastUpdated # 0
    /\ t - state.lastUpdated < NEWS_WINDOW
    /\ state.category = category

\* What fetchNewsWithCache returns, and whether it called fetch.
FetchNewsWithCacheOutcome(state, category, forceRefresh, response, t) ==
    IF CacheValid(state, category, t) /\ ~forceRefresh
    THEN [status |-> "fulfilled", articles |-> state.articles,
          timestamp |-> state.lastUpdated, fromCache |-> TRUE,
          fetched |-> FALSE]
    ELSE IF response.ok
    THEN [status |-> "fulfilled", articles |-> response.articles,
          timestamp |-> t,
          fromCache |-> FALSE, fetched |-> TRUE]
    ELSE [status |-> "rejected", articles |-> <<>>, timestamp |-> NoTime,
          fromCache |-> FALSE, fetched |-> TRUE]

\* dispatch(fetchNewsWithCache({ category, forceRefresh })).  No reducer of
\* newsSlice handles its actions.
FetchNewsWithCache(category, forceRefresh, response) ==
    /\ LET out == FetchNewsWithCacheOutcome(newsSlice, category, forceRefresh,
                                            response, now)
       IN last' = [op |-> "fetchNewsWithCache", category |-> category,
                   forceRefresh |-> forceRefresh, status |-> out.status,
                   articles |-> out.articles, fromCache |-> out.fromCache,
                   fetched |-> out.fetched]
    /\ UNCHANGED <<storeVars, cacheVars, now>>

SliceTick ==
    /\ now < MaxSliceTime
    /\ now' = now + 1
    /\ UNCHANGED <<storeVars, cacheVars, last>>

----------------------------------------------------------------------------
(* DataMigrationManager (docs/07-async-storage) *)

\* What is stored under StorageKeys.BOOKMARKS: nothing ("absent"), text that
\* is not JSON ("corrupt"), the old bare list ("array"), the bare
\* BookmarkStorage object that migrateToV1 writes ("raw"), or a
\* BookmarkStorage inside the envelope of VersionedSerializer ("wrapped"),
\* whose items may carry a category and a priority.
BookmarkBlob(fmt, category, priority) ==
    [fmt |-> fmt, category |-> category, priority |-> priority]

\* No 'data_migration_version' and no 'news_bookmarks'.
NoMigration == [version |-> NULL, blob |-> BookmarkBlob("absent", FALSE, FALSE)]

----------------------------------------------------------------------------
(* The bookmark store *)

InitStore ==
    /\ items = <<>>
    /\ isLoading = FALSE
    /\ error = NULL
    /\ lastUpdated = NoTime
    /\ inflight = <<>>
    /\ now = 0
    /\ last = Report("init", <<>>, TRUE, "none", FALSE)
    /\ cacheDisk = EmptyCache
    /\ newsDisk = NoNews
    /\ articles = <<>>
    /\ queryError = FALSE
    /\ newsSlice = initialNewsState
    /\ newsInflight = <<>>
    /\ migration = NoMigration

\* What an earlier run, or a fault of the device, left in AsyncStorage.
Init ==
    /\ InitStore
    /\ storage \in
         {[bookmarks |-> b, bookmarks_backup |-> k] :
            b \in {Absent, Blob(CorruptText), Blob(JSONStringify(<<IdA>>))},
            k \in {Absent, Blob(JSONStringify(<<IdB>>))}}

Next ==
    \/ \E id \in Ids : AddBookmark(id)
    \/ \E id \in Ids : RemoveBookmark(id)
    \/ ClearAllBookmarks
    \/ ClearError
    \/ LoadDispatch
    \/ SaveDispatch
    \/ \E i \in 1..MaxInflight, ioOk \in BOOLEAN : LoadSettle(i, ioOk)
    \/ \E i \in 1..MaxInflight, ioOk \in BOOLEAN : SaveSettle(i, ioOk)
    \/ \E ioOk \in BOOLEAN : Restart(ioOk)
    \/ Tick

Spec == Init /\ [][Next]_vars

----------------------------------------------------------------------------
(* saveBookmarks followed by loadBookmarks, called on their own *)

IdC == <<BSLASH>>
IdD == <<"c", ",", QUOTE>>

RtIds == {IdA, IdB, IdC, IdD}

\* The duplicate-free sequences over S of length at most n.
DupFreeSeqs(S, n) ==
    {s \in UNION {[1..k -> S] : k \in 0..n} :
        \A i, j \in 1..Len(s) : s[i] = s[j] => i = j}

NoBlobs == [bookmarks |-> Absent, bookmarks_backup |-> Absent]

InitRoundTrip ==
    /\ items \in DupFreeSeqs(RtIds, MaxLen)
    /\ isLoading = FALSE
    /\ error = NULL
    /\ lastUpdated = NoTime
    /\ inflight = <<>>
    /\ now = 0
    /\ storage = NoBlobs
    /\ last = Report("init", <<>>, TRUE, "none", FALSE)
    /\ cacheDisk = EmptyCache
    /\ newsDisk = NoNews
    /\ articles = <<>>
    /\ queryError = FALSE
    /\ newsSlice = initialNewsState
    /\ newsInflight = <<>>
    /\ migration = NoMigration

\* await saveBookmarks(items), the store working.
SaveBookmarksCall ==
    /\ last.op = "init"
    /\ storage' = SaveBookmarksWrite(storage, items, TRUE)
    /\ last' = Report("saveBookmarks", <<>>, TRUE, "none", FALSE)
    /\ UNCHANGED <<items, isLoading, error, lastUpdated, inflight, now, cacheVars>>

\* items = await loadBookmarks(), the store working.
LoadBookmarksCall ==
    /\ last.op = "saveBookmarks"
    /\ items' = LoadBookmarks(storage, TRUE)
    /\ last' = Report("loadBookmarks", <<>>, TRUE, "none", items' # items)
    /\ UNCHANGED <<isLoading, error, lastUpdated, inflight, storage, now, cacheVars>>

NextRoundTrip == SaveBookmarksCall \/ LoadBookmarksCall

SpecRoundTrip == InitRoundTrip /\ [][NextRoundTrip]_vars

----------------------------------------------------------------------------
(* The order of the bookmarks *)

OrderIds == {IdA, IdB, IdC}

\* await dispatch(saveBookmarksAsync(items)): the thunk run to its end with
\* no other thunk in flight.
SaveAwaited(ioOk) ==
    /\ inflight = <<>>
    /\ storage' = SaveBookmarksWrite(storage, items, ioOk)
    /\ LET out == SaveThunkOutcome(items, ioOk) IN
       /\ Settled(out, "save rejected")
       /\ last' = Report("saveAwaited", <<>>, ioOk, out.status, items' # items)
    /\ UNCHANGED <<inflight, now, cacheVars>>

InitOrder == InitStore /\ storage = NoBlobs

NextOrder ==
    \/ \E id \in OrderIds : AddBookmark(id)
    \/ \E id \in OrderIds : RemoveBookmark(id)
    \/ \E ioOk \in BOOLEAN : SaveAwaited(ioOk)
    \/ \E ioOk \in BOOLEAN : Restart(ioOk)

SpecOrder == InitOrder /\ [][NextOrder]_vars

----------------------------------------------------------------------------
(* The cache manager, and the news cache of the storage service *)

\* The state in which neither a bookmark nor a cache entry is stored.
InitIdle ==
    /\ items = <<>>
    /\ isLoading = FALSE
    /\ error = NULL
    /\ lastUpdated = NoTime
    /\ inflight = <<>>
    /\ storage = NoBlobs
    /\ now = 0
    /\ last = CacheReport("init", "", "ok", NULL, 0, 0)
    /\ cacheDisk = EmptyCache
    /\ articles = <<>>
    /\ queryError = FALSE
    /\ newsSlice = initialNewsState
    /\ newsInflight = <<>>
    /\ migration = NoMigration

InitCache == InitIdle /\ newsDisk = NoNews

NextCache ==
    \/ \E k \in CacheKeys, d \in Payloads, ttl \in TTLs,
          io \in {"ok", "writeFails"} : SetCacheItem(k, d, ttl, io)
    \/ \E k \in CacheKeys, io \in {"ok", "readFails", "writeFails"} :
          GetCacheItem(k, io)
    \/ \E k \in CacheKeys, io \in {"ok", "writeFails"} : RemoveCacheItem(k, io)
    \/ \E io \in {"ok", "writeFails"} : ClearAllCache(io)
    \/ CacheTick

SpecCache == InitCache /\ [][NextCache]_vars

\* 'news_cache' is absent or holds what a fault left.
InitNews == InitIdle /\ newsDisk \in {NoNews, CorruptNews}

NewsTick ==
    /\ now < MaxNewsTime
    /\ now' = now + 1
    /\ UNCHANGED <<storeVars, cacheVars, last>>

NextNews ==
    \/ \E news \in NewsPayloads, io \in {"ok", "writeFails"} : CacheNews(news, io)
    \/ \E io \in {"ok", "readFails"} : LoadCachedNews(io)
    \/ NewsTick

SpecNews == InitNews /\ [][NextNews]_vars

----------------------------------------------------------------------------
(* The three stores side by side: 'bookmarks', 'news_cache' and 'cache_*' *)

\* The keys given to the cache manager while the count stays within
\* MAX_CACHE_SIZE.
SharedKeys == {"k1", "k2"}

\* Under a cache key, text that JSON.parse rejects: safeParse gives null.
CorruptEntry == [present |-> TRUE, env |-> [garbage |-> TRUE]]

\* What earlier runs, or a fault of the device, left under the three kinds
\* of key.
InitReads ==
    /\ items = <<>>
    /\ isLoading = FALSE
    /\ error = NULL
    /\ lastUpdated = NoTime
    /\ inflight = <<>>
    /\ storage \in
         {[bookmarks |-> b, bookmarks_backup |-> Absent] :
            b \in {Absent, Blob(CorruptText), Blob(JSONStringify(<<IdA>>))}}
    /\ now = 0
    /\ last = CacheReport("init", "", "ok", NULL, 0, 0)
    /\ cacheDisk \in {EmptyCache, [EmptyCache EXCEPT !["k1"] = CorruptEntry]}
    /\ newsDisk \in {NoNews, CorruptNews}
    /\ articles = <<>>
    /\ queryError = FALSE
    /\ newsSlice = initialNewsState
    /\ newsInflight = <<>>
    /\ migration = NoMigration

NextReads ==
    \/ \E k \in SharedKeys, d \in NewsPayloads, ttl \in TTLs,
          io \in {"ok", "writeFails"} : SetCacheItem(k, d, ttl, io)
    \/ \E k \in SharedKeys, io \in {"ok", "readFails", "writeFails"} :
          GetCacheItem(k, io)
    \/ \E news \in NewsPayloads, io \in {"ok", "writeFails"} : CacheNews(news, io)
    \/ \E io \in {"ok", "readFails"} : LoadCachedNews(io)
    \/ \E ioOk \in BOOLEAN : Restart(ioOk)

SpecReads == InitReads /\ [][NextReads]_vars

----------------------------------------------------------------------------
(* HeadlinesScreen over the bookmark store and RTK Query's getHeadlines *)

\* An article of the News API's response that has no url.
NoUrl == <<>>

DigitChar(n) == <<"0", "1", "2", "3", "4", "5", "6", "7", "8", "9">>[n + 1]

\* `article-${index}-${Date.now()}`
FallbackId(prefix, index, t) ==
    <<prefix, "-", DigitChar(index), "-", DigitChar(t)>>

RawArticle(url) == [url |-> url]

\* response.articles as the News API may send it.
Responses ==
    { <<>>,
      <<RawArticle(IdA)>>,
      <<RawArticle(IdA), RawArticle(IdB)>>,
      <<RawArticle(IdB), RawArticle(NoUrl)>>,
      <<RawArticle(NoUrl), RawArticle(NoUrl)>> }

\* transformResponse of getHeadlines: { ...article, id: article.url || ... }
TransformResponse(response, t) ==
    [i \in 1..Len(response) |->
        [url |-> response[i].url,
         id |-> IF response[i].url # NoUrl THEN response[i].url
                ELSE FallbackId("article", i - 1, t)]]

\* useGetHeadlinesQuery: a fetch that succeeds replaces the cached data, one
\* that fails leaves it.
FetchHeadlines(response, ok) ==
    /\ articles' = IF ok THEN TransformResponse(response, now) ELSE articles
    /\ queryError' = ~ok
    /\ last' = [op |-> "getHeadlines", ok |-> ok]
    /\ UNCHANGED <<storeVars, cacheDisk, newsDisk, docVars, now>>

\* A bookmark test that looks at the first bookmark only.
IsBookmarkedHeadOnly(bookmarkItems, articleId) ==
    bookmarkItems # <<>> /\ Head(bookmarkItems) = articleId

\* isBookmarked of HeadlinesScreen: bookmarkItems.includes(articleId)
IsBookmarked(bookmarkItems, articleId) == Includes(bookmarkItems, articleId)

\* selectIsBookmarked: items.includes(articleId)
SelectIsBookmarked(bookmarkItems, articleId) ==
    \E i \in 1..Len(bookmarkItems) : bookmarkItems[i] = articleId

\* renderNewsItem: the props of the NewsCard
RenderNewsItem(item, bookmarkItems) ==
    [article |-> item, isBookmarked |-> IsBookmarked(bookmarkItems, item.id)]

\* ErrorBoundary: the error card in place of its children when error is set.
ErrorBoundary(err, children) ==
    IF err THEN [view |-> "error", cards |-> <<>>]
    ELSE [view |-> "list", cards |-> children]

\* A render of the screen: the FlatList over the query's data, the cached
\* data when no fetch has run since, inside the ErrorBoundary.
RenderHeadlines ==
    /\ LET shown == ErrorBoundary(queryError,
                         [i \in 1..Len(articles) |->
                             RenderNewsItem(articles[i], items)])
       IN last' = [op |-> "render", view |-> shown.view, cards |-> shown.cards]
    /\ UNCHANGED <<storeVars, cacheVars, now>>

\* handleBookmarkToggle, from the card of an article on the screen
HandleBookmarkToggle(articleId) ==
    IF IsBookmarked(items, articleId)
    THEN RemoveBookmark(articleId)
    ELSE AddBookmark(articleId)

NextUI ==
    \/ \E response \in Responses, ok \in BOOLEAN : FetchHeadlines(response, ok)
    \/ RenderHeadlines
    \/ \E i \in 1..Len(articles) : HandleBookmarkToggle(articles[i].id)
    \/ LoadDispatch
    \/ \E i \in 1..MaxInflight, ioOk \in BOOLEAN : LoadSettle(i, ioOk)

SpecUI == Init /\ [][NextUI]_vars

----------------------------------------------------------------------------
(* The documented news slice *)

\* Date.now() is positive.
InitSlice ==
    /\ items = <<>>
    /\ isLoading = FALSE
    /\ error = NULL
    /\ lastUpdated = NoTime
    /\ inflight = <<>>
    /\ storage = NoBlobs
    /\ now = 1
    /\ last = [op |-> "init"]
    /\ cacheDisk = EmptyCache
    /\ newsDisk = NoNews
    /\ articles = <<>>
    /\ queryError = FALSE
    /\ newsSlice = initialNewsState
    /\ newsInflight = <<>>
    /\ migration = NoMigration

NextSlice ==
    \/ \E category \in Categories : FetchNewsDispatch(category)
    \/ \E i \in 1..MaxNewsInflight, response \in NewsResponses :
          FetchNewsSettle(i, response)
    \/ \E category \in Categories, forceRefresh \in BOOLEAN,
          response \in NewsResponses :
          FetchNewsWithCache(category, forceRefresh, response)
    \/ SliceTick

SpecSlice == InitSlice /\ [][NextSlice]_vars

----------------------------------------------------------------------------
(* The documented migration runner *)

CURRENT_VERSION == 3

\* version.toString()
VersionToString(n) == DigitChar(n)

\* parseInt(version, 10) on the strings setMigrationVersion writes.
ParseInt(s) == CHOOSE n \in 0..9 : DigitChar(n) = s

StoredVersions == {NULL} \cup {VersionToString(n) : n \in 0..CURRENT_VERSION}

BookmarkBlobs ==
    {BookmarkBlob(fmt, FALSE, FALSE) : fmt \in {"absent", "corrupt", "array", "raw"}}
        \cup {BookmarkBlob("wrapped", FALSE, FALSE),
              BookmarkBlob("wrapped", TRUE, FALSE),
              BookmarkBlob("wrapped", TRUE, TRUE)}

\* What AsyncStorage does during one step: both calls resolve, getItem
\* rejects, or setItem rejects.
StepIO == {"ok", "readFails", "writeFails"}

AllOk == [i \in 1..CURRENT_VERSION |-> "ok"]

\* A missing key reads as version 0, and so does a read that rejects.
GetCurrentMigrationVersion(m, readOk) ==
    IF ~readOk THEN 0
    ELSE IF m.version = NULL THEN 0
    ELSE ParseInt(m.version)

\* TypedStorage.getTypedItem yields the data of an envelope and null for
\* everything else, a rejected read included.
GetTypedBookmarkStorage(blob, io) ==
    IF io # "readFails" /\ blob.fmt = "wrapped" THEN blob
    ELSE BookmarkBlob("absent", FALSE, FALSE)

\* Each step catches what it throws and logs it: failed says that it did.
MigrateToV1(blob, io) ==
    IF io = "readFails" THEN [blob |-> blob, failed |-> TRUE]
    ELSE IF blob.fmt = "absent" THEN [blob |-> blob, failed |-> FALSE]
    ELSE IF blob.fmt = "corrupt" THEN [blob |-> blob, failed |-> TRUE]
    ELSE IF blob.fmt = "array"
         THEN IF io = "writeFails" THEN [blob |-> blob, failed |-> TRUE]
              ELSE [blob |-> BookmarkBlob("raw", FALSE, FALSE), failed |-> FALSE]
    ELSE [blob |-> blob, failed |-> FALSE]

MigrateToV2(blob, io) ==
    LET bookmarks == GetTypedBookmarkStorage(blob, io)
    IN IF bookmarks.fmt = "absent" THEN [blob |-> blob, failed |-> FALSE]
       ELSE IF io = "writeFails" THEN [blob |-> blob, failed |-> TRUE]
       ELSE [blob |-> [bookmarks EXCEPT !.category = TRUE], failed |-> FALSE]

MigrateToV3(blob, io) ==
    LET bookmarks == GetTypedBookmarkStorage(blob, io)
    IN IF bookmarks.fmt = "absent" THEN [blob |-> blob, failed |-> FALSE]
       ELSE IF io = "writeFails" THEN [blob |-> blob, failed |-> TRUE]
       ELSE [blob |-> [bookmarks EXCEPT !.priority = TRUE], failed |-> FALSE]

\* migrations[i]
Migrations(i, blob, io) ==
    CASE i = 0 -> MigrateToV1(blob, io)
      [] i = 1 -> MigrateToV2(blob, io)
      [] OTHER -> MigrateToV3(blob, io)

\* The loop that runs a version's step twice.
RECURSIVE PerformMigrationTwice(_, _, _, _)
PerformMigrationTwice(i, r, ios, verFailAt) ==
    IF i >= CURRENT_VERSION THEN r
    ELSE LET step == Migrations(i, r.blob, ios[i + 1])
             ran == [r EXCEPT !.blob = step.blob,
                              !.log = Append(Append(r.log, i), i),
                              !.failed = IF step.failed THEN r.failed \cup {i}
                                         ELSE r.failed]
         IN IF verFailAt = i + 1 THEN [ran EXCEPT !.threw = TRUE]
            ELSE PerformMigrationTwice(
                     i + 1, [ran EXCEPT !.version = VersionToString(i + 1)],
                     ios, verFailAt)

\* for (i = fromVersion; i < CURRENT_VERSION; i++): log the step, run it,
\* write version i + 1.  Only a rejected setMigrationVersion leaves the loop
\* early; verFailAt is the version whose write rejects (0: none does).
RECURSIVE PerformMigration(_, _, _, _)
PerformMigration(i, r, ios, verFailAt) ==
    IF i >= CURRENT_VERSION THEN r
    ELSE LET step == Migrations(i, r.blob, ios[i + 1])
             ran == [r EXCEPT !.blob = step.blob, !.log = Append(r.log, i),
                              !.failed = IF step.failed THEN r.failed \cup {i}
                                         ELSE r.failed]
         IN IF verFailAt = i + 1 THEN [ran EXCEPT !.threw = TRUE]
            ELSE PerformMigration(
                     i + 1, [ran EXCEPT !.version = VersionToString(i + 1)],
                     ios, verFailAt)

\* checkAndMigrate catches whatever performMigration throws and resolves:
\* the caller is handed nothing (surfaced).  log lists the steps announced,
\* failed the steps that caught an error, threw whether the loop was left by
\* an exception, ioOk whether every AsyncStorage call of the run resolved,
\* resumed whether the run before this one was cut short.
CheckAndMigrate(readOk, ios, verFailAt) ==
    /\ LET currentVersion == GetCurrentMigrationVersion(migration, readOk)
           start == [version |-> migration.version, blob |-> migration.blob,
                     log |-> <<>>, failed |-> {}, threw |-> FALSE]
           r == IF currentVersion < CURRENT_VERSION
                THEN PerformMigration(currentVersion, start, ios, verFailAt)
                ELSE start
       IN /\ migration' = [version |-> r.version, blob |-> r.blob]
          /\ last' = [op |-> "checkAndMigrate", readOk |-> readOk,
                      from |-> currentVersion, log |-> r.log,
                      failed |-> r.failed, threw |-> r.threw,
                      surfaced |-> FALSE, resumed |-> last.op = "crashed",
                      ioOk |-> readOk /\ ios = AllOk /\ verFailAt = 0]
    /\ UNCHANGED <<storeVars, cacheDisk, newsDisk, articles, queryError,
                   newsSlice, newsInflight, now>>

\* A loop that writes version i + 1 before it runs step i.
RECURSIVE CrashedMigrationVersionFirst(_, _, _, _)
CrashedMigrationVersionFirst(i, r, crashStep, afterWrite) ==
    LET step == Migrations(i, r.blob, "ok")
        ran == [r EXCEPT !.blob = step.blob, !.log = Append(r.log, i),
                         !.version = VersionToString(i + 1),
                         !.failed = IF step.failed THEN r.failed \cup {i}
                                    ELSE r.failed]
    IN IF i = crashStep
       THEN IF afterWrite THEN ran ELSE [ran EXCEPT !.blob = r.blob]
       ELSE CrashedMigrationVersionFirst(i + 1, ran, crashStep, afterWrite)

\* performMigration cut short by the end of the process inside
\* migrations[crashStep](): before the step's setItem, or after it
\* (afterWrite) and before setMigrationVersion(crashStep + 1).
RECURSIVE CrashedMigration(_, _, _, _)
CrashedMigration(i, r, crashStep, afterWrite) ==
    LET step == Migrations(i, r.blob, "ok")
        ran == [r EXCEPT !.blob = step.blob, !.log = Append(r.log, i),
                         !.failed = IF step.failed THEN r.failed \cup {i}
                                    ELSE r.failed]
    IN IF i = crashStep
       THEN IF afterWrite THEN ran ELSE [ran EXCEPT !.blob = r.blob]
       ELSE CrashedMigration(i + 1,
                [ran EXCEPT !.version = VersionToString(i + 1)],
                crashStep, afterWrite)

\* checkAndMigrate on a working store, the process ending during step
\* crashStep.  origin is what was stored when the run began.
CheckAndMigrateCrash(crashStep, afterWrite) ==
    /\ LET currentVersion == GetCurrentMigrationVersion(migration, TRUE)
           start == [version |-> migration.version, blob |-> migration.blob,
                     log |-> <<>>, failed |-> {}, threw |-> FALSE]
       IN /\ currentVersion <= crashStep
          /\ crashStep < CURRENT_VERSION
          /\ LET r == CrashedMigration(currentVersion, start, crashStep,
                                       afterWrite)
             IN /\ migration' = [version |-> r.version, blob |-> r.blob]
                /\ last' = [op |-> "crashed", step |-> crashStep,
                            afterWrite |-> afterWrite, log |-> r.log,
                            failed |-> r.failed, origin |-> migration]
    /\ UNCHANGED <<storeVars, cacheDisk, newsDisk, articles, queryError,
                   newsSlice, newsInflight, now>>

\* Any version the runner may have written, over any bookmark data the app
\* may have left.
InitMigration ==
    /\ items = <<>>
    /\ isLoading = FALSE
    /\ error = NULL
    /\ lastUpdated = NoTime
    /\ inflight = <<>>
    /\ storage = NoBlobs
    /\ now = 1
    /\ last = [op |-> "init"]
    /\ cacheDisk = EmptyCache
    /\ newsDisk = NoNews
    /\ articles = <<>>
    /\ queryError = FALSE
    /\ newsSlice = initialNewsState
    /\ newsInflight = <<>>
    /\ migration \in [version : StoredVersions, blob : BookmarkBlobs]

NextMigration ==
    \/ \E readOk \in BOOLEAN, ios \in [1..CURRENT_VERSION -> StepIO],
          verFailAt \in 0..CURRENT_VERSION :
           CheckAndMigrate(readOk, ios, verFailAt)
    \/ \E crashStep \in 0..CURRENT_VERSION - 1, afterWrite \in BOOLEAN :
           CheckAndMigrateCrash(crashStep, afterWrite)

SpecMigration == InitMigration /\ [][NextMigration]_vars

----------------------------------------------------------------------------
(* Claims on the bookmark store *)

\* What a working read of AsyncStorage would give the store now.
Persisted == LoadBookmarks(storage, TRUE)

Mutations == {"addBookmark", "removeBookmark", "clearAllBookmarks"}

C2_PersistedOnEveryMutation ==
    (last.op \in Mutations /\ last.changed) => Persisted = items

\* C3: add(a) has completed and contains(a) is true; the process restarts and
\* loads from the same storage (the read working): contains(a) is true again.
C3_AddSurvivesRestart ==
    [][(last.op = "addBookmark" /\ last'.op = "restart" /\ last'.ioOk)
         => Includes(items', last.id)]_vars

\* C4: there is no state in which the write of a save failed, the save was
\* reported as successful, and the set in memory differs from the persisted one.
C4_FailedWriteIsNotSilent ==
    ~(/\ last.op = "saveSettled"
      /\ ~last.ioOk
      /\ last.outcome = "fulfilled"
      /\ items # Persisted)

BlobIsCorrupt(cell) ==
    cell.present /\ cell.text # <<>> /\ ~JSONParse(cell.text).ok

\* C5: when the stored blob is unreadable at load time, the load does not throw
\* and the store ends with the content of the backup key if there is one, and
\* with the empty set otherwise.
C5_CorruptBlobRestoresBackup ==
    (/\ last.op \in {"loadSettled", "restart"}
     /\ last.ioOk
     /\ BlobIsCorrupt(storage["bookmarks"]))
    => /\ last.outcome = "fulfilled"
       /\ items = IF storage["bookmarks_backup"].present
                  THEN JSONParse(storage["bookmarks_backup"].text).value
                  ELSE <<>>

\* C6: for every duplicate-free sequence S of ids, the empty one included,
\* saveBookmarks(S) followed by loadBookmarks() on a working store returns S:
\* the same ids in the same order.
C6_SaveLoadRoundTrip ==
    [][last'.op = "loadBookmarks" => items' = items]_vars

\* C6 witness: a list of MaxLen ids, one of them holding a quote and one a
\* backslash, has been saved and loaded back.
C6_Witness_LoadedBack ==
    /\ last.op = "loadBookmarks"
    /\ Len(items) = 3
    /\ Includes(items, IdB)
    /\ Includes(items, IdC)
    /\ storage["bookmarks"].present

----------------------------------------------------------------------------
(* Claims on the caches *)

\* C7: an entry set with ttl T and still stored is a hit for every read that
\* succeeds while now - createdAt <= T - 1 and is never a hit once
\* now - createdAt > T; T and createdAt are the ttl given to setCacheItem and
\* the time of that call, and no getCacheItem changes them.
C7_TtlCorrectness ==
    [][/\ (last'.op = "getCacheItem" /\ now' = now
              /\ cacheDisk[last'.key].present) =>
            LET item == cacheDisk[last'.key].env.data
                age == now - item.timestamp
            IN /\ (last'.io # "readFails" /\ age <= item.ttl - 1) =>
                      last'.ret = item.data
               /\ age > item.ttl => last'.ret = NULL
               /\ cacheDisk'[last'.key].present =>
                      /\ cacheDisk'[last'.key].env.data.ttl = item.ttl
                      /\ cacheDisk'[last'.key].env.data.timestamp = item.timestamp
       /\ (last'.op = "setCacheItem" /\ now' = now /\ last'.io = "ok"
              /\ cacheDisk'[last'.key].present) =>
            /\ cacheDisk'[last'.key].env.data.ttl = last'.ttl
            /\ cacheDisk'[last'.key].env.data.timestamp = now]_vars

\* A read met an expired entry, returned a miss and, its removeItem rejected,
\* left the entry to be seen.
C7_Witness_ExpiredMiss ==
    /\ last.op = "getCacheItem"
    /\ last.io = "writeFails"
    /\ last.ret = NULL
    /\ cacheDisk[last.key].present
    /\ now - cacheDisk[last.key].env.data.timestamp
           > cacheDisk[last.key].env.data.ttl

\* C8: once a read of the cache has returned absent, storage holds no expired
\* entry under the key that was read.
C8_ExpiredGetDeletesEntry ==
    (last.op = "loadCachedNews" /\ last.io = "ok" /\ last.ret = NULL) =>
        ~(newsDisk.kind = "valid" /\ NewsIsExpired(newsDisk, now))

C10_FlagIsContainsAtRead ==
    /\ last.op = "render" =>
          \A i \in 1..Len(last.cards) :
              last.cards[i].isBookmarked
                  = SelectIsBookmarked(items, last.cards[i].article.id)
    /\ \A i \in 1..Len(articles) : "isBookmarked" \notin DOMAIN articles[i]

\* A render of two cached articles, one of them bookmarked since the fetch.
C10_Witness_MixedFlags ==
    /\ last.op = "render"
    /\ Len(last.cards) = 2
    /\ ~last.cards[1].isBookmarked
    /\ last.cards[2].isBookmarked

----------------------------------------------------------------------------
(* Claims on the article lists *)

\* C11: when the fetch has failed and a list fetched earlier is still cached,
\* the screen shows that list, not the error.
C11_StaleListOnFetchFailure ==
    (last.op = "render" /\ queryError /\ articles # <<>>) => last.view = "list"

\* C17: two articles with the same url have the same id.
C17_IdIsFunctionOfUrl ==
    \A i, j \in 1..Len(articles) :
        articles[i].url = articles[j].url => articles[i].id = articles[j].id

C16_LaterCompletionWins ==
    (last.op = "fetchNewsSettled" /\ last.status = "fulfilled") =>
        /\ newsSlice.articles = last.articles
        /\ newsSlice.category = last.category

\* The fetch started first was fulfilled last, none is left in flight and
\* the slice holds its list.
C16_Witness_FirstStartedCompletedLast ==
    /\ last.op = "fetchNewsSettled"
    /\ last.status = "fulfilled"
    /\ last.overtaken
    /\ newsInflight = <<>>

----------------------------------------------------------------------------
C14_FailingStepAbortsChain ==
    [][(last'.op = "checkAndMigrate" /\ last'.failed # {})
        => \E k \in last'.failed :
              /\ \A j \in 1..Len(last'.log) : last'.log[j] <= k
              /\ migration'.version \in {migration.version, VersionToString(k)}
              /\ k = last'.from => migration'.blob = migration.blob
              /\ last'.surfaced]_vars

----------------------------------------------------------------------------
(* Claims on concurrency, no-ops and order in the bookmark store *)

\* C15: at no time are two writes of the bookmark key in flight together.
C15_OneWriteInFlight ==
    Cardinality({i \in 1..Len(inflight) : inflight[i].kind = "save"}) <= 1

C19_RemoveAbsentIsNoOp ==
    [][(last'.op = "removeBookmark" /\ now' = now)
        => IF Includes(items, last'.id)
           THEN Range(items') = Range(items) \ {last'.id}
           ELSE /\ ~last'.changed
                /\ items' = items
                /\ lastUpdated' = lastUpdated
                /\ isLoading' = isLoading
                /\ error' = error
                /\ storage' = storage]_vars

PositionIn(its, id) == CHOOSE i \in 1..Len(its) : its[i] = id

----------------------------------------------------------------------------
(* Claims on the sweep of the cache manager *)

\* C21: a setCacheItem that deletes entries which are not expired deletes
\* the ones of lowest (accessCount, lastAccessed) and no more than it takes
\* to come down to MAX_CACHE_SIZE: every deleted entry ranks no higher than
\* every entry left, and MAX_CACHE_SIZE entries are left.
C21_EvictsLeastUsedOnly ==
    [][(last'.op = "setCacheItem" /\ now' = now /\ last'.io = "ok") =>
        LET candidates == PresentKeys(cacheDisk) \cup {last'.key}
            stats(k) == IF k = last'.key
                        THEN [accessCount |-> 0, lastAccessed |-> now]
                        ELSE [accessCount |-> cacheDisk[k].env.data.accessCount,
                              lastAccessed |-> cacheDisk[k].env.data.lastAccessed]
            live == {k \in candidates :
                        k = last'.key \/ ~IsExpired(cacheDisk[k].env.data, now)}
            evicted == live \ PresentKeys(cacheDisk')
        IN /\ evicted # {} =>
                 Cardinality(PresentKeys(cacheDisk')) = MAX_CACHE_SIZE
           /\ \A e \in evicted, k \in PresentKeys(cacheDisk') :
                 \/ stats(e).accessCount < stats(k).accessCount
                 \/ /\ stats(e).accessCount = stats(k).accessCount
                    /\ stats(e).lastAccessed <= stats(k).lastAccessed]_vars

\* C22: when a setCacheItem has run its sweep, no entry whose age exceeds
\* its ttl is left in storage.
C22_SweepPurgesExpired ==
    (last.op = "setCacheItem" /\ last.io = "ok") =>
        \A k \in PresentKeys(cacheDisk) :
            ~IsExpired(cacheDisk[k].env.data, now)

----------------------------------------------------------------------------
(* Claims on a migration cut short *)

\* C23: when the process ends during step k -> k+1, before or after the
\* step's write, the stored version reads k; the next checkAndMigrate, with
\* nothing failing, runs step k first and ends with the data and the version
\* that a run without the crash ends with.
C23_CrashedStepIsReapplied ==
    [][/\ last'.op = "crashed" =>
            GetCurrentMigrationVersion(migration', TRUE) = last'.step
       /\ (/\ last.op = "crashed" /\ last.failed = {}
           /\ last'.op = "checkAndMigrate" /\ last'.ioOk
           /\ last'.failed = {}) =>
            LET origin == last.origin
                whole == PerformMigration(
                             GetCurrentMigrationVersion(origin, TRUE),
                             [version |-> origin.version, blob |-> origin.blob,
                              log |-> <<>>, failed |-> {}, threw |-> FALSE],
                             AllOk, 0)
            IN /\ last'.log # <<>>
               /\ last'.log[1] = last.step
               /\ migration' = [version |-> whole.version, blob |-> whole.blob]]_vars

\* A run that followed a crash has turned the old bare list into the new
\* format and reached the target version.
C23_Witness_ResumedAfterCrash ==
    /\ last.op = "checkAndMigrate"
    /\ last.resumed
    /\ last.ioOk /\ last.failed = {}
    /\ last.log = <<0, 1, 2>>
    /\ migration = [version |-> "3", blob |-> BookmarkBlob("raw", FALSE, FALSE)]

----------------------------------------------------------------------------
(* Claims on the thunks of the bookmark store *)

\* C25: an id that addBookmark has just put into items is in items after the
\* loadBookmarksAsync that completes next.
C25_AddSurvivesLoad ==
    [][(last.op = "addBookmark" /\ last.changed /\ last'.op = "loadSettled")
        => Includes(items', last.id)]_vars

\* C26: when a saveBookmarksAsync is fulfilled right after an addBookmark,
\* removeBookmark or clearAllBookmarks that changed items, and so was pending
\* during it, items is what that mutation left.
C26_SaveKeepsLaterMutation ==
    [][(last.op \in Mutations /\ last.changed /\ last'.op = "saveSettled")
        => items' = items]_vars

\* C27: isLoading is true exactly when a loadBookmarksAsync or a
\* saveBookmarksAsync is in flight.
C27_LoadingIffInFlight == isLoading = (inflight # <<>>)

----------------------------------------------------------------------------
(* Claims on the reads of the three stores *)

C30_HitKeepsExpiry ==
    [][(last'.op = "getCacheItem" /\ now' = now /\ last'.ret # NULL) =>
        LET before == cacheDisk[last'.key].env.data
            after == cacheDisk'[last'.key].env.data
        IN /\ cacheDisk'[last'.key].present
           /\ after.data = before.data
           /\ after.data = last'.ret
           /\ after.timestamp + after.ttl = before.timestamp + before.ttl
           /\ after \in {before,
                         [before EXCEPT !.accessCount = before.accessCount + 1,
                                        !.lastAccessed = now]}]_vars

\* An entry was read later than it was stored: its access statistics are of
\* the time of the read, its timestamp of the time of the set.
C30_Witness_ReadLaterThanStored ==
    /\ last.op = "getCacheItem"
    /\ last.io = "ok"
    /\ last.ret # NULL
    /\ cacheDisk[last.key].env.data.accessCount = 1
    /\ cacheDisk[last.key].env.data.lastAccessed = now
    /\ cacheDisk[last.key].env.data.timestamp < now

====
